---- MODULE Spec2Model ----
(***************************************************************************)
(* NotiFlow: the popup's category pages (midterms, finals, assignments,    *)
(* class meetings), the persisted chrome.storage.sync key-value store they *)
(* write, the announcement parser's documented first-detection policy and  *)
(* the calendar export's documented entry kinds.                           *)
(***************************************************************************)
EXTENDS Integers, Sequences, FiniteSets, Bags, TLC

VARIABLES
    storage,      \* chrome.storage.sync: the keys that are set, and each key's value
    activeTab,    \* Main: the tab whose page component is mounted
    listState,    \* the mounted page's list state (midterms / finals / assignments)
    isLoading,    \* the mounted page's isLoading state
    loadPending,  \* the mount effect's storage.get callback has not fired yet
    call,         \* the reparse() invocation of the mounted page (pc "idle": none)
    orphans,      \* bag of the reparse() invocations whose page has been unmounted
    consoleLog,   \* the message of reparse()'s last console.log line
    feed,         \* SpecParser: the announcements every API call of the behaviour sees
    classes,      \* ClasstimePage: classes state
    showInput,    \* ClasstimePage: showInput state
    editingIndex, \* ClasstimePage: editingIndex state (0 models null, 1 the first entry)
    classLoad,    \* ClasstimePage: the mount effect's pending storage.get("classData")
    form,         \* Classtime: className, days, startTime, endTime state
    ical,         \* the entries of the calendar export last generated
    accepted,     \* Body: accepted state
    enter,        \* Body: enter state
    APIKEY,       \* GetAPI: APIKEY state (the text of the token input)
    errorMessage, \* GetAPI: errorMessage state
    courseList,   \* GetAPI: classes state (the course list last fetched)
    enterCalls,   \* bag of the handleEnter() invocations that have not ended
    bodyLoad,     \* Body: the mount effects' pending storage.get of the two flags
    rule,         \* the recurrence rule and window given to expand
    occurrences   \* the dates expand produced for it

vars == << storage, activeTab, listState, isLoading, loadPending, call, orphans,
           consoleLog, feed, classes, showInput, editingIndex, classLoad, form, ical,
           accepted, enter, APIKEY, errorMessage, courseList, enterCalls, bodyLoad,
           rule, occurrences >>

classVars == << classes, showInput, editingIndex, classLoad, form >>

termVars == << accepted, enter, APIKEY, errorMessage, courseList, enterCalls, bodyLoad >>

recurrenceVars == << rule, occurrences >>

\* ------------------------------------------------------------------ bounds
MaxAnnouncements == 2   \* announcements the backend sees in one API call
MaxCalls         == 2   \* reparse() invocations in flight at once
MaxClasses       == 2   \* entries in the class list
MaxEnters        == 2   \* handleEnter() invocations that have not ended
MaxInterval      == 2   \* weeks between two steps of a recurrence rule

\* ------------------------------------------------------------- characters
UpperLetters == {"A", "B", "C", "D", "E", "F", "G", "H", "I", "J", "K", "L", "M",
                 "N", "O", "P", "Q", "R", "S", "T", "U", "V", "W", "X", "Y", "Z"}
Digits       == {"0", "1", "2", "3", "4", "5", "6", "7", "8", "9"}
Separators   == {" ", "_"}

MATH253  == << "M", "A", "T", "H", " ", "2", "5", "3" >>
CPEN221  == << "C", "P", "E", "N", " ", "2", "2", "1" >>

Courses == {MATH253, CPEN221}
Dates   == {"2025/10/15", "2025/10/22"}
NoSpan  == "none"

\* ------------------------------------------------------- midterm detection
\* One announcement as the parser sees it: the course it was posted in and the
\* date the language model found in it (NoSpan when it found none).
Announcements ==
    [course : {MATH253}, span : Dates \cup {NoSpan}]
        \cup [course : {CPEN221}, span : {"2025/10/15", NoSpan}]

RECURSIVE SeqsUpTo(_, _)
SeqsUpTo(S, n) ==
    IF n = 0 THEN {<< >>}
    ELSE LET shorter == SeqsUpTo(S, n - 1)
         IN  shorter \cup {Append(s, x) : s \in {t \in shorter : Len(t) = n - 1}, x \in S}

AnnouncementBatches == SeqsUpTo(Announcements, MaxAnnouncements)

\* The event object of a detected midterm, in the shape MidtermPage's `info`
\* constant shows.
MidtermEvent(course, date) ==
    [ course |-> course, date |-> date, begin_date_time |-> "12:00:00",
      end_date_time |-> "1:00:00", event_type |-> "Midterm" ]

Range(seq) == {seq[i] : i \in DOMAIN seq}

CoursesOf(events) == {events[i].course : i \in DOMAIN events}

\* Mutant: a later announcement of a course that already has a midterm is
\* detected again instead of being ignored.
RECURSIVE DetectAllMidterms(_, _)
DetectAllMidterms(anns, detected) ==
    IF anns = << >> THEN detected
    ELSE LET a == Head(anns)
         IN  IF a.span = NoSpan
             THEN DetectAllMidterms(Tail(anns), detected)
             ELSE DetectAllMidterms(Tail(anns),
                                    Append(detected, MidtermEvent(a.course, a.span)))

\* The announcement parser over one API call: announcements are taken in
\* order; once a midterm is detected for a course, later announcements of
\* that course are ignored.
RECURSIVE DetectMidterms(_, _)
DetectMidterms(anns, detected) ==
    IF anns = << >> THEN detected
    ELSE LET a == Head(anns)
         IN  IF a.course \in CoursesOf(detected)
             THEN DetectMidterms(Tail(anns), detected)
             ELSE IF a.span = NoSpan
                  THEN DetectMidterms(Tail(anns), detected)
                  ELSE DetectMidterms(Tail(anns),
                                      Append(detected, MidtermEvent(a.course, a.span)))

\* ------------------------------------------------------- backend responses
FinalEvent(course) ==
    [ course |-> course, date |-> "2025/12/10", begin_date_time |-> "12:00:00",
      end_date_time |-> "14:30:00", location |-> "ESB 1319", event_type |-> "final" ]

AssignmentEvent(course) ==
    [ course |-> course, assignment |-> "Lab 1", date |-> "2025/10/01",
      time |-> "23:59:00", event_type |-> "assignment" ]

\* What GET /api/finalexam and /api/assignments can answer.
Responses(key) ==
    CASE key = "finals"      -> {<< >>, << FinalEvent(CPEN221) >>}
      [] key = "assignments" -> {<< >>, << AssignmentEvent(CPEN221) >>}

\* ---------------------------------------------------------------- storage
\* A stored flag is the one-element list << TRUE >>, so that every stored value
\* is a list and a key that is not set reads as << >>.
Keys == {"midterms", "finals", "assignments", "classData", "token", "courses",
         "enter", "accepted"}

\* Mutant: the write appends to the value already stored under the key.
StorageAppend(store, key, value) ==
    [keys |-> store.keys \cup {key}, value |-> [store.value EXCEPT ![key] = @ \o value]]

\* Mutant: the write replaces the whole store by the one key.
StorageOverwrite(store, key, value) ==
    [keys |-> {key}, value |-> [k \in Keys |-> IF k = key THEN value ELSE << >>]]

\* chrome.storage.sync.set({key: value}): the value under key is replaced,
\* every other key keeps its value.
StorageSet(store, key, value) ==
    [keys |-> store.keys \cup {key}, value |-> [store.value EXCEPT ![key] = value]]

\* result[key] of chrome.storage.sync.get(key) (<< >> when the key is not set).
StorageGet(store, key) == store.value[key]

\* ------------------------------------------------------------ the pages
COMPONENT_TABS == {"Classes", "Assignments", "Midterms", "Finals"}
RefreshTabs    == {"Assignments", "Midterms", "Finals"}

\* The storage key a page loads on mount and writes in reparse().
KeyOf(tab) ==
    CASE tab = "Midterms"    -> "midterms"
      [] tab = "Finals"      -> "finals"
      [] tab = "Assignments" -> "assignments"
      [] tab = "Classes"     -> "classData"

Idle == [pc |-> "idle", key |-> "none", data |-> << >>]

\* What reparse() resolves with: the function returns no value.
ReparseResult == << >>

InFlight == BagCardinality(orphans) + (IF call.pc = "idle" THEN 0 ELSE 1)

\* c is a running reparse() invocation: the mounted page's, or an orphan.
Running(c, mounted) ==
    /\ c.pc # "idle"
    /\ IF mounted THEN c = call ELSE BagIn(c, orphans)

\* The invocation c moves on to c2 (Idle: it has ended).
Continue(c, mounted, c2) ==
    /\ call' = IF mounted THEN c2 ELSE call
    /\ orphans' = IF mounted THEN orphans
                  ELSE (orphans (-) SetToBag({c}))
                       (+) (IF c2.pc = "idle" THEN EmptyBag ELSE SetToBag({c2}))

\* A list state as useState([]) creates it.
EmptyList == << >>

\* "" as a time select's value.
NoTime == << >>

\* Classtime's state as a fresh mount creates it.
EmptyForm == [className |-> << >>, days |-> {}, startTime |-> NoTime, endTime |-> NoTime]

\* ClasstimePage's mount effect: chrome.storage.sync.get("classData") is sent.
ClassLoadSent(store) ==
    [pending |-> TRUE, set |-> "classData" \in store.keys, classData |-> StorageGet(store, "classData")]

NoClassLoad == [pending |-> FALSE, set |-> FALSE, classData |-> << >>]

\* Main: a tab button is clicked. The page of the old tab is unmounted (its
\* state is gone and its running reparse() can no longer set state) and the
\* page of the new tab is mounted: initial state, and its mount effect has
\* asked storage for its key.
SelectTab(t) ==
    /\ t \in COMPONENT_TABS
    /\ t # activeTab
    /\ activeTab' = t
    /\ listState' = EmptyList
    /\ isLoading' = FALSE
    /\ loadPending' = (t \in RefreshTabs)
    /\ call' = Idle
    /\ orphans' = IF call.pc = "idle" THEN orphans ELSE orphans (+) SetToBag({call})
    /\ classes' = << >>
    /\ showInput' = TRUE
    /\ editingIndex' = 0
    /\ classLoad' = IF t = "Classes" THEN ClassLoadSent(storage) ELSE NoClassLoad
    /\ form' = EmptyForm
    /\ UNCHANGED << storage, consoleLog, feed, ical >>
    /\ UNCHANGED << termVars, recurrenceVars >>

\* The mount effect's chrome.storage.sync.get([key]) callback of a refresh
\* page: a stored list replaces the list state. (A key that is not set leaves
\* the list state alone; the list state is then still the empty list.)
LoadCallback ==
    /\ activeTab \in RefreshTabs
    /\ loadPending
    /\ loadPending' = FALSE
    /\ listState' = IF KeyOf(activeTab) \in storage.keys
                    THEN StorageGet(storage, KeyOf(activeTab)) ELSE listState
    /\ UNCHANGED << storage, activeTab, isLoading, call, orphans, consoleLog, feed, ical >>
    /\ UNCHANGED classVars
    /\ UNCHANGED << termVars, recurrenceVars >>

\* reparse() up to the request: the Reparse button is enabled only while
\* isLoading is false. The token (or course list) is read from storage and the
\* request is sent with it; reparse() then waits for the answer. (No step of
\* these pages writes the token or the course list, so the two waits are one.)
ReparseStart ==
    /\ activeTab \in RefreshTabs
    /\ ~isLoading
    /\ InFlight < MaxCalls
    /\ call' = [pc |-> "fetch", key |-> KeyOf(activeTab), data |-> << >>]
    /\ isLoading' = TRUE
    /\ UNCHANGED << storage, activeTab, listState, loadPending, orphans, consoleLog, feed, ical >>
    /\ UNCHANGED classVars
    /\ UNCHANGED << termVars, recurrenceVars >>

\* reparse(): the announcements request answers with what the parser detected
\* in the batch it saw; storageSet is called with the answer.
FetchMidtermsOk(c, mounted, batch) ==
    /\ Running(c, mounted)
    /\ c.pc = "fetch"
    /\ c.key = "midterms"
    /\ Continue(c, mounted, [c EXCEPT !.pc = "storageSet",
                                      !.data = DetectMidterms(batch, << >>)])
    /\ UNCHANGED << storage, activeTab, listState, isLoading, loadPending, consoleLog, feed, ical >>
    /\ UNCHANGED classVars
    /\ UNCHANGED << termVars, recurrenceVars >>

\* reparse(): the finals or assignments request answers.
FetchOk(c, mounted, resp) ==
    /\ Running(c, mounted)
    /\ c.pc = "fetch"
    /\ c.key \in {"finals", "assignments"}
    /\ resp \in Responses(c.key)
    /\ Continue(c, mounted, [c EXCEPT !.pc = "storageSet", !.data = resp])
    /\ UNCHANGED << storage, activeTab, listState, isLoading, loadPending, consoleLog, feed, ical >>
    /\ UNCHANGED classVars
    /\ UNCHANGED << termVars, recurrenceVars >>

\* Mutant: the catch branch stores and shows an empty list.
FetchFailClears(c, mounted) ==
    /\ Running(c, mounted)
    /\ c.pc = "fetch"
    /\ Continue(c, mounted, Idle)
    /\ storage' = StorageSet(storage, c.key, << >>)
    /\ listState' = IF mounted THEN << >> ELSE listState
    /\ consoleLog' = "Error reparsing"
    /\ isLoading' = IF mounted THEN FALSE ELSE isLoading
    /\ UNCHANGED << activeTab, loadPending, feed, ical >>
    /\ UNCHANGED classVars
    /\ UNCHANGED << termVars, recurrenceVars >>

\* Mutant: the catch branch without the finally block.
FetchFailStaysLoading(c, mounted) ==
    /\ Running(c, mounted)
    /\ c.pc = "fetch"
    /\ Continue(c, mounted, Idle)
    /\ consoleLog' = "Error reparsing"
    /\ UNCHANGED << storage, activeTab, listState, isLoading, loadPending, feed, ical >>
    /\ UNCHANGED classVars
    /\ UNCHANGED << termVars, recurrenceVars >>

\* reparse(): the request fails; catch logs, finally clears isLoading.
FetchFail(c, mounted) ==
    /\ Running(c, mounted)
    /\ c.pc = "fetch"
    /\ Continue(c, mounted, Idle)
    /\ consoleLog' = "Error reparsing"
    /\ isLoading' = IF mounted THEN FALSE ELSE isLoading
    /\ UNCHANGED << storage, activeTab, listState, loadPending, feed, ical >>
    /\ UNCHANGED classVars
    /\ UNCHANGED << termVars, recurrenceVars >>

\* storageSet: chrome.storage.sync.set writes the fetched list under the
\* page's key.
StorageSetDone(c, mounted) ==
    /\ Running(c, mounted)
    /\ c.pc = "storageSet"
    /\ storage' = StorageSet(storage, c.key, c.data)
    /\ Continue(c, mounted, [c EXCEPT !.pc = "setState"])
    /\ UNCHANGED << activeTab, listState, isLoading, loadPending, consoleLog, feed, ical >>
    /\ UNCHANGED classVars
    /\ UNCHANGED << termVars, recurrenceVars >>

\* reparse() after storageSet resolved: the list state is set (on a page that
\* is still mounted), the fetched list is logged as stored, finally clears
\* isLoading.
ReparseFinish(c, mounted) ==
    /\ Running(c, mounted)
    /\ c.pc = "setState"
    /\ Continue(c, mounted, Idle)
    /\ listState' = IF mounted THEN c.data ELSE listState
    /\ consoleLog' = "Stored data:"
    /\ isLoading' = IF mounted THEN FALSE ELSE isLoading
    /\ UNCHANGED << storage, activeTab, loadPending, feed, ical >>
    /\ UNCHANGED classVars
    /\ UNCHANGED << termVars, recurrenceVars >>

\* The popup is closed and opened again and Body has read its two flags, both
\* stored as true, so that Main is shown again: every component is created
\* anew, running calls are gone with the old page, the store keeps its values.
ReopenPopup ==
    /\ activeTab' = "Classes"
    /\ listState' = EmptyList
    /\ isLoading' = FALSE
    /\ loadPending' = FALSE
    /\ call' = Idle
    /\ orphans' = EmptyBag
    /\ classes' = << >>
    /\ showInput' = TRUE
    /\ editingIndex' = 0
    /\ classLoad' = ClassLoadSent(storage)
    /\ form' = EmptyForm
    /\ consoleLog' = ""
    /\ UNCHANGED << storage, feed, ical >>
    /\ UNCHANGED << termVars, recurrenceVars >>

\* ------------------------------------------------------- the class form
INTRO == << "I", "n", "t", "r", "o", " ", "t", "o", " ",
            "P", "r", "o", "g", "r", "a", "m", "m", "i", "n", "g" >>
BLANK == << " ", " " >>

\* generateTimes(): the options of the time selects, "8:00 AM" to "9:00 PM"
\* in half-hour steps. A time string is modelled by its three parts,
\* << displayHour, displayMinute, suffix >>.
RECURSIVE GenerateTimes(_, _)
GenerateTimes(hour, minute) ==
    IF hour < 21 \/ (hour = 21 /\ minute = 0)
    THEN LET suffix      == IF hour >= 12 THEN "PM" ELSE "AM"
             displayHour == IF hour > 12 THEN hour - 12 ELSE hour
         IN  << << displayHour, minute, suffix >> >>
                \o (IF minute + 30 = 60 THEN GenerateTimes(hour + 1, 0)
                    ELSE GenerateTimes(hour, minute + 30))
    ELSE << >>

allTimes == GenerateTimes(8, 0)

\* timeToMinutes(t): minutes since midnight of a time string.
timeToMinutes(t) ==
    LET h == IF t[3] = "PM" /\ t[1] # 12 THEN t[1] + 12
             ELSE IF t[3] = "AM" /\ t[1] = 12 THEN 0
             ELSE t[1]
    IN  h * 60 + t[2]

\* validEndTimes: the options of the end select.
validEndTimes(startTime) ==
    IF startTime # NoTime
    THEN SelectSeq(allTimes, LAMBDA t : timeToMinutes(t) >= timeToMinutes(startTime) + 30)
    ELSE allTimes

\* String.prototype.trim() on a string given as its characters.
RECURSIVE TrimStart(_)
TrimStart(str) ==
    IF str # << >> /\ Head(str) = " " THEN TrimStart(Tail(str)) ELSE str

RECURSIVE TrimEnd(_)
TrimEnd(str) ==
    IF str # << >> /\ str[Len(str)] = " " THEN TrimEnd(SubSeq(str, 1, Len(str) - 1)) ELSE str

Trim(str) == TrimEnd(TrimStart(str))

\* Mutant: isValid without the test that some day is checked.
isValidAnyDays(f) ==
    /\ Trim(f.className) # << >>
    /\ f.startTime # NoTime
    /\ f.endTime # NoTime

\* Classtime: isValid.
isValid(f) ==
    /\ Trim(f.className) # << >>
    /\ f.days # {}
    /\ f.startTime # NoTime
    /\ f.endTime # NoTime

\* An empty slot of a sparse array (null once it is stored).
Hole == [className |-> << >>, days |-> {}, startTime |-> NoTime, endTime |-> NoTime]

\* updated[index] = classObj on a copy of the list; an index past the end
\* leaves empty slots before it.
SetAt(list, index, classObj) ==
    IF index <= Len(list) THEN [list EXCEPT ![index] = classObj]
    ELSE list \o [i \in 1..(index - Len(list) - 1) |-> Hole] \o << classObj >>

\* Classtime as it is mounted: the initialData effect copies the entry being
\* edited into the fields.
MountedForm(list, index) ==
    IF index # 0 /\ index <= Len(list) /\ list[index] # Hole
    THEN list[index] ELSE EmptyForm

\* The form an update of ClasstimePage leaves: Classtime is rendered only
\* while showInput is true, and keeps its state while it stays rendered.
FormAfter(shownBefore, shownAfter, list, index) ==
    IF ~shownAfter THEN EmptyForm
    ELSE IF shownBefore THEN form
    ELSE MountedForm(list, index)

\* The course input changes.
TypeClassName(name) ==
    /\ activeTab = "Classes"
    /\ showInput
    /\ name # form.className
    /\ form' = [form EXCEPT !.className = name]
    /\ UNCHANGED << storage, activeTab, listState, isLoading, loadPending, call, orphans,
                    consoleLog, feed, classes, showInput, editingIndex, classLoad, ical >>
    /\ UNCHANGED << termVars, recurrenceVars >>

\* A day checkbox is clicked.
ToggleDay(d) ==
    /\ activeTab = "Classes"
    /\ showInput
    /\ form' = [form EXCEPT !.days = IF d \in @ THEN @ \ {d} ELSE @ \cup {d}]
    /\ UNCHANGED << storage, activeTab, listState, isLoading, loadPending, call, orphans,
                    consoleLog, feed, classes, showInput, editingIndex, classLoad, ical >>
    /\ UNCHANGED << termVars, recurrenceVars >>

\* Mutant: the start select changes and the end time is kept.
SelectStartKeepsEnd(t) ==
    /\ activeTab = "Classes"
    /\ showInput
    /\ t \in Range(allTimes) \cup {NoTime}
    /\ t # form.startTime
    /\ form' = [form EXCEPT !.startTime = t]
    /\ UNCHANGED << storage, activeTab, listState, isLoading, loadPending, call, orphans,
                    consoleLog, feed, classes, showInput, editingIndex, classLoad, ical >>
    /\ UNCHANGED << termVars, recurrenceVars >>

\* The start select changes: the end time is cleared.
SelectStart(t) ==
    /\ activeTab = "Classes"
    /\ showInput
    /\ t \in Range(allTimes) \cup {NoTime}
    /\ t # form.startTime
    /\ form' = [form EXCEPT !.startTime = t, !.endTime = NoTime]
    /\ UNCHANGED << storage, activeTab, listState, isLoading, loadPending, call, orphans,
                    consoleLog, feed, classes, showInput, editingIndex, classLoad, ical >>
    /\ UNCHANGED << termVars, recurrenceVars >>

\* The end select changes: it is disabled while no start time is chosen and
\* offers validEndTimes.
SelectEnd(t) ==
    /\ activeTab = "Classes"
    /\ showInput
    /\ form.startTime # NoTime
    /\ t \in Range(validEndTimes(form.startTime)) \cup {NoTime}
    /\ t # form.endTime
    /\ form' = [form EXCEPT !.endTime = t]
    /\ UNCHANGED << storage, activeTab, listState, isLoading, loadPending, call, orphans,
                    consoleLog, feed, classes, showInput, editingIndex, classLoad, ical >>
    /\ UNCHANGED << termVars, recurrenceVars >>

\* Mutant: handleSave writes the new entry alone when it adds a class.
SavedListNewOnly(list, index, classObj) ==
    IF index # 0 THEN SetAt(list, index, classObj) ELSE << classObj >>

\* handleSave: the list after saving classObj.
SavedList(list, index, classObj) ==
    IF index # 0 THEN SetAt(list, index, classObj) ELSE Append(list, classObj)

\* Classtime.handleSubmit and ClasstimePage.handleSave: the Add Class / Save
\* Changes button.
HandleSubmit ==
    /\ activeTab = "Classes"
    /\ showInput
    /\ isValid(form)
    /\ editingIndex # 0 \/ Len(classes) < MaxClasses
    /\ LET updated == SavedList(classes, editingIndex, form)
       IN  /\ classes' = updated
           /\ storage' = StorageSet(storage, "classData", updated)
    /\ editingIndex' = 0
    /\ showInput' = FALSE
    /\ form' = EmptyForm
    /\ UNCHANGED << activeTab, listState, isLoading, loadPending, call, orphans,
                    consoleLog, feed, classLoad, ical >>
    /\ UNCHANGED << termVars, recurrenceVars >>

\* ClasstimePage.handleDelete: a card's Delete button.
HandleDelete(index) ==
    /\ activeTab = "Classes"
    /\ ~showInput
    /\ index \in DOMAIN classes
    /\ LET updated == SubSeq(classes, 1, index - 1) \o SubSeq(classes, index + 1, Len(classes))
       IN  /\ classes' = updated
           /\ storage' = StorageSet(storage, "classData", updated)
           /\ showInput' = (Len(updated) = 0)
           /\ form' = FormAfter(showInput, Len(updated) = 0, updated, editingIndex)
    /\ UNCHANGED << activeTab, listState, isLoading, loadPending, call, orphans,
                    consoleLog, feed, editingIndex, classLoad, ical >>
    /\ UNCHANGED << termVars, recurrenceVars >>

\* ClasstimePage.handleEdit: a card's Edit button.
HandleEdit(index) ==
    /\ activeTab = "Classes"
    /\ ~showInput
    /\ index \in DOMAIN classes
    /\ editingIndex' = index
    /\ showInput' = TRUE
    /\ form' = MountedForm(classes, index)
    /\ UNCHANGED << storage, activeTab, listState, isLoading, loadPending, call, orphans,
                    consoleLog, feed, classes, classLoad, ical >>
    /\ UNCHANGED << termVars, recurrenceVars >>

\* The Add Another Class button.
AddAnotherClass ==
    /\ activeTab = "Classes"
    /\ ~showInput
    /\ showInput' = TRUE
    /\ form' = MountedForm(classes, editingIndex)
    /\ UNCHANGED << storage, activeTab, listState, isLoading, loadPending, call, orphans,
                    consoleLog, feed, classes, editingIndex, classLoad, ical >>
    /\ UNCHANGED << termVars, recurrenceVars >>

\* The callback of the mount effect's chrome.storage.sync.get("classData"):
\* a stored list (an empty one too) replaces the classes state, and the
\* effect on classes shows the form exactly when the list is empty.
ClassLoadCallback ==
    /\ activeTab = "Classes"
    /\ classLoad.pending
    /\ classLoad' = NoClassLoad
    /\ IF classLoad.set
       THEN /\ classes' = classLoad.classData
            /\ showInput' = (Len(classLoad.classData) = 0)
            /\ form' = FormAfter(showInput, Len(classLoad.classData) = 0,
                                 classLoad.classData, editingIndex)
       ELSE UNCHANGED << classes, showInput, form >>
    /\ UNCHANGED << storage, activeTab, listState, isLoading, loadPending, call, orphans,
                    consoleLog, feed, editingIndex, ical >>
    /\ UNCHANGED << termVars, recurrenceVars >>

\* ------------------------------------------------------ calendar export
\* The component the ICal handler writes for an event: a VTODO for an
\* assignment, a VEVENT for every other event.
EntryComponent(event) ==
    IF event.event_type = "assignment" THEN "VTODO" ELSE "VEVENT"

\* The events the export is made of. (Class meetings are not among them: the
\* server has no way to receive them.)
ExportedEvents(store) ==
    StorageGet(store, "assignments") \o StorageGet(store, "finals")
        \o StorageGet(store, "midterms")

\* The ICal handler writes the calendar file: one entry per event.
GenerateIcal ==
    /\ ical' = [i \in DOMAIN ExportedEvents(storage) |->
                   [component |-> EntryComponent(ExportedEvents(storage)[i]),
                    event     |-> ExportedEvents(storage)[i]]]
    /\ ical' # ical
    /\ UNCHANGED << storage, activeTab, listState, isLoading, loadPending, call, orphans,
                    consoleLog, feed >>
    /\ UNCHANGED classVars
    /\ UNCHANGED << termVars, recurrenceVars >>

\* ------------------------------------------------------ the token screen
TOKEN  == << "t", "o", "k" >>
PADDED == << " ", "t", "o", "k", " " >>

BlankTokenError == "Please paste your API token before continuing."
RetryError      == "cannot access APIKEY, try again"

\* Body renders GetAPI while accepted is true and enter is false.
GetAPIShown == accepted /\ ~enter

\* The invocations of a bag once their GetAPI is unmounted: they run on, and
\* their setState calls no longer have an effect.
Detached(calls) ==
    [d \in {[c EXCEPT !.live = FALSE] : c \in BagToSet(calls)} |->
        CopiesIn(d, calls) + CopiesIn([d EXCEPT !.live = TRUE], calls)]

\* The invocation c of handleEnter moves on to c2.
EnterContinue(c, c2) ==
    enterCalls' = (enterCalls (-) SetToBag({c})) (+) SetToBag({c2})

\* The token input changes.
TypeToken(t) ==
    /\ GetAPIShown
    /\ t # APIKEY
    /\ APIKEY' = t
    /\ UNCHANGED << storage, activeTab, listState, isLoading, loadPending, call, orphans,
                    consoleLog, feed, ical, accepted, enter, errorMessage, courseList,
                    enterCalls >>
    /\ UNCHANGED << classVars, recurrenceVars, bodyLoad >>

\* Mutant: the blank token sets the error message and the handler goes on to
\* the courses request.
HandleEnterBlankGoesOn ==
    /\ GetAPIShown
    /\ Trim(APIKEY) = << >>
    /\ errorMessage' = BlankTokenError
    /\ BagCardinality(enterCalls) < MaxEnters
    /\ enterCalls' = enterCalls (+) SetToBag({[pc |-> "courses", token |-> Trim(APIKEY),
                                               classes |-> courseList, fetched |-> << >>,
                                               sent |-> << >>, data |-> << >>,
                                               failed |-> FALSE, live |-> TRUE]})
    /\ UNCHANGED << storage, activeTab, listState, isLoading, loadPending, call, orphans,
                    consoleLog, feed, ical, accepted, enter, APIKEY, courseList >>
    /\ UNCHANGED << classVars, recurrenceVars, bodyLoad >>

\* handleEnter, the ENTER button, with a blank token: the error message is set
\* and the handler returns.
HandleEnterBlank ==
    /\ GetAPIShown
    /\ Trim(APIKEY) = << >>
    /\ errorMessage' = BlankTokenError
    /\ UNCHANGED << storage, activeTab, listState, isLoading, loadPending, call, orphans,
                    consoleLog, feed, ical, accepted, enter, APIKEY, courseList,
                    enterCalls >>
    /\ UNCHANGED << classVars, recurrenceVars, bodyLoad >>

\* handleEnter with a token: the courses request is sent. The invocation keeps
\* the APIKEY and classes values of the render its handler was created in.
HandleEnter ==
    /\ GetAPIShown
    /\ Trim(APIKEY) # << >>
    /\ BagCardinality(enterCalls) < MaxEnters
    /\ enterCalls' = enterCalls (+) SetToBag({[pc |-> "courses", token |-> Trim(APIKEY),
                                               classes |-> courseList, fetched |-> << >>,
                                               sent |-> << >>, data |-> << >>,
                                               failed |-> FALSE, live |-> TRUE]})
    /\ UNCHANGED << storage, activeTab, listState, isLoading, loadPending, call, orphans,
                    consoleLog, feed, ical, accepted, enter, APIKEY, errorMessage,
                    courseList >>
    /\ UNCHANGED << classVars, recurrenceVars, bodyLoad >>

\* The courses request answers; storageSet({courses}) is called.
CoursesOk(c, fetchedCourses) ==
    /\ BagIn(c, enterCalls)
    /\ c.pc = "courses"
    /\ EnterContinue(c, [c EXCEPT !.pc = "setCourses", !.fetched = fetchedCourses])
    /\ UNCHANGED << storage, activeTab, listState, isLoading, loadPending, call, orphans,
                    consoleLog, feed, ical, accepted, enter, APIKEY, errorMessage,
                    courseList >>
    /\ UNCHANGED << classVars, recurrenceVars, bodyLoad >>

\* chrome.storage.sync.set writes the course list.
CoursesStored(c) ==
    /\ BagIn(c, enterCalls)
    /\ c.pc = "setCourses"
    /\ storage' = StorageSet(storage, "courses", c.fetched)
    /\ EnterContinue(c, [c EXCEPT !.pc = "coursesStored"])
    /\ UNCHANGED << activeTab, listState, isLoading, loadPending, call, orphans,
                    consoleLog, feed, ical, accepted, enter, APIKEY, errorMessage,
                    courseList >>
    /\ UNCHANGED << classVars, recurrenceVars, bodyLoad >>

\* handleEnter after storageSet({courses}) resolved: setClasses(fetchedCourses)
\* (on a GetAPI that is still mounted), then the final-exam request is sent with
\* `classes`, the value of the render the handler was created in.
SendFinals(c) ==
    /\ BagIn(c, enterCalls)
    /\ c.pc = "coursesStored"
    /\ courseList' = IF c.live THEN c.fetched ELSE courseList
    /\ EnterContinue(c, [c EXCEPT !.pc = "finals", !.sent = c.classes])
    /\ UNCHANGED << storage, activeTab, listState, isLoading, loadPending, call, orphans,
                    consoleLog, feed, ical, accepted, enter, APIKEY, errorMessage >>
    /\ UNCHANGED << classVars, recurrenceVars, bodyLoad >>

\* The final-exam request answers; storageSet({finals}) is called.
FinalsOk(c, fetchedFinals) ==
    /\ BagIn(c, enterCalls)
    /\ c.pc = "finals"
    /\ EnterContinue(c, [c EXCEPT !.pc = "setFinals", !.data = fetchedFinals])
    /\ UNCHANGED << storage, activeTab, listState, isLoading, loadPending, call, orphans,
                    consoleLog, feed, ical, accepted, enter, APIKEY, errorMessage,
                    courseList >>
    /\ UNCHANGED << classVars, recurrenceVars, bodyLoad >>

\* chrome.storage.sync.set writes the finals; when storageSet has resolved the
\* try block ends and chrome.storage.sync.set({enter, token}) is called.
FinalsStored(c) ==
    /\ BagIn(c, enterCalls)
    /\ c.pc = "setFinals"
    /\ storage' = StorageSet(storage, "finals", c.data)
    /\ EnterContinue(c, [c EXCEPT !.pc = "setEnter"])
    /\ UNCHANGED << activeTab, listState, isLoading, loadPending, call, orphans,
                    consoleLog, feed, ical, accepted, enter, APIKEY, errorMessage,
                    courseList >>
    /\ UNCHANGED << classVars, recurrenceVars, bodyLoad >>

\* A backend request of handleEnter fails: catch sets the error message, and
\* the handler goes on to chrome.storage.sync.set({enter, token}).
EnterFail(c) ==
    /\ BagIn(c, enterCalls)
    /\ c.pc \in {"courses", "finals"}
    /\ errorMessage' = IF c.live THEN RetryError ELSE errorMessage
    /\ EnterContinue(c, [c EXCEPT !.pc = "setEnter", !.failed = TRUE])
    /\ UNCHANGED << storage, activeTab, listState, isLoading, loadPending, call, orphans,
                    consoleLog, feed, ical, accepted, enter, APIKEY, courseList >>
    /\ UNCHANGED << classVars, recurrenceVars, bodyLoad >>

\* chrome.storage.sync.set({enter: true, token}) writes both keys.
EnterStored(c) ==
    /\ BagIn(c, enterCalls)
    /\ c.pc = "setEnter"
    /\ storage' = StorageSet(StorageSet(storage, "enter", << TRUE >>), "token", c.token)
    /\ EnterContinue(c, [c EXCEPT !.pc = "enterStored"])
    /\ UNCHANGED << activeTab, listState, isLoading, loadPending, call, orphans,
                    consoleLog, feed, ical, accepted, enter, APIKEY, errorMessage,
                    courseList >>
    /\ UNCHANGED << classVars, recurrenceVars, bodyLoad >>

\* The callback of that write: the error message is cleared and setEnter(true)
\* makes Body render Main, whose class page is mounted and asks storage for
\* its list; GetAPI is unmounted. The invocation has ended.
EnterCallback(c) ==
    /\ BagIn(c, enterCalls)
    /\ c.pc = "enterStored"
    /\ enterCalls' = Detached(enterCalls (-) SetToBag({c}))
    /\ errorMessage' = IF c.live THEN "" ELSE errorMessage
    /\ enter' = TRUE
    /\ classLoad' = IF GetAPIShown THEN ClassLoadSent(storage) ELSE classLoad
    /\ UNCHANGED << storage, activeTab, listState, isLoading, loadPending, call, orphans,
                    consoleLog, feed, ical, accepted, APIKEY, courseList,
                    classes, showInput, editingIndex, form, bodyLoad >>
    /\ UNCHANGED recurrenceVars

\* ------------------------------------------------------ recurrence
\* A date is a day number; day 0 is a Monday.
BY_DAY == << "MO", "TU", "WE", "TH", "FR", "SA", "SU" >>

DayOf(date) == BY_DAY[(date % 7) + 1]

\* The window the expansion property is stated for: from the rule's anchor
\* date, ten times the interval in weeks.
WindowWeeks == 10

Window(r) == [date_from |-> r.start, date_to |-> r.start + 7 * WindowWeeks * r.interval]

\* The dates of one step: the seven days from stepStart on, in order, one per
\* weekday of the rule, without the exception dates.
RECURSIVE StepDates(_, _, _)
StepDates(r, stepStart, k) ==
    IF k = 7 THEN << >>
    ELSE (IF DayOf(stepStart + k) \in r.weekdays /\ stepStart + k \notin r.exceptions
          THEN << stepStart + k >> ELSE << >>)
         \o StepDates(r, stepStart, k + 1)

\* Mutant: the expansion goes on through date_to and emits the dates up to
\* and including it.
RECURSIVE ExpandThroughFrom(_, _, _)
ExpandThroughFrom(r, stepStart, date_to) ==
    IF stepStart > date_to THEN << >>
    ELSE SelectSeq(StepDates(r, stepStart, 0), LAMBDA d : d <= date_to)
         \o ExpandThroughFrom(r, stepStart + 7 * r.interval, date_to)

ExpandThrough(r, window) == ExpandThroughFrom(r, window.date_from, window.date_to)

\* expand: from the anchor date, step forward by `interval` weeks, emit the
\* dates of the step, stop at date_to.
RECURSIVE ExpandFrom(_, _, _)
ExpandFrom(r, stepStart, date_to) ==
    IF stepStart >= date_to THEN << >>
    ELSE StepDates(r, stepStart, 0) \o ExpandFrom(r, stepStart + 7 * r.interval, date_to)

Expand(r, window) == ExpandFrom(r, window.date_from, window.date_to)

\* expand is called on the rule over its window.
ExpandRule ==
    /\ rule.weekdays # {}
    /\ rule.interval >= 1
    /\ occurrences = << >>
    /\ occurrences' = Expand(rule, Window(rule))
    /\ UNCHANGED << storage, activeTab, listState, isLoading, loadPending, call, orphans,
                    consoleLog, feed, ical, rule >>
    /\ UNCHANGED << classVars, termVars >>

\* ------------------------------------------------------------ initial state
\* The store when the tabbed UI is first shown: the token entry has stored the
\* token and the course list.
InitStorage ==
    [ keys  |-> {"token", "courses", "enter", "accepted"},
      value |-> [k \in Keys |-> CASE k = "token"    -> << "token-1" >>
                                  [] k = "courses"  -> << MATH253, CPEN221 >>
                                  [] k = "enter"    -> << TRUE >>
                                  [] k = "accepted" -> << TRUE >>
                                  [] OTHER          -> << >>] ]

\* No recurrence rule has been expanded.
NoRule == [start |-> 0, weekdays |-> {}, interval |-> 0, exceptions |-> {}]

InitRecurrence ==
    /\ rule = NoRule
    /\ occurrences = << >>

\* Body's mount effects: chrome.storage.sync.get("accepted") and ("enter") are
\* sent; a flag that is not set reads as false.
BodyLoadSent(store) ==
    [accepted |-> [pending |-> TRUE, value |-> StorageGet(store, "accepted") = << TRUE >>],
     enter    |-> [pending |-> TRUE, value |-> StorageGet(store, "enter") = << TRUE >>]]

NoBodyLoad ==
    [accepted |-> [pending |-> FALSE, value |-> FALSE],
     enter    |-> [pending |-> FALSE, value |-> FALSE]]

\* Mutant: the render tests enter before accepted.
BodyEnterFirst(acceptedValue, enterValue) ==
    IF ~enterValue THEN "GetAPI"
    ELSE IF ~acceptedValue THEN "Popup"
    ELSE "Main"

\* Body's render: the component it returns for the values of its two state
\* flags. The two "Loading..." returns test the flags against null, which
\* neither useState(false) nor `result?.key || false` produces, and the return
\* after the if/else chain is never reached.
Body(acceptedValue, enterValue) ==
    IF ~acceptedValue THEN "Popup"
    ELSE IF ~enterValue THEN "GetAPI"
    ELSE "Main"

\* The screen Body renders in the current state.
Rendered == Body(accepted, enter)

\* Body renders again with the flags a and e, the store being `store`. A
\* component that is no longer returned is unmounted: its state is gone and
\* what it had started runs on without it. A component that is newly returned
\* is mounted with its initial state; the class page of Main asks storage for
\* its list.
Rerender(a, e, store) ==
    LET before == Body(accepted, enter)
        after  == Body(a, e)
    IN  /\ accepted' = a
        /\ enter' = e
        /\ IF after = "GetAPI" /\ before # "GetAPI"
              THEN /\ APIKEY' = << >>
                   /\ errorMessage' = ""
                   /\ courseList' = << >>
              ELSE UNCHANGED << APIKEY, errorMessage, courseList >>
        /\ enterCalls' = IF before = "GetAPI" /\ after # "GetAPI"
                            THEN Detached(enterCalls)
                            ELSE enterCalls
        /\ IF before # after /\ "Main" \in {before, after}
              THEN /\ activeTab' = "Classes"
                   /\ listState' = EmptyList
                   /\ isLoading' = FALSE
                   /\ loadPending' = FALSE
                   /\ call' = Idle
                   /\ orphans' = IF call.pc = "idle" THEN orphans
                                                    ELSE orphans (+) SetToBag({call})
                   /\ classes' = << >>
                   /\ showInput' = TRUE
                   /\ editingIndex' = 0
                   /\ form' = EmptyForm
                   /\ classLoad' = IF after = "Main" THEN ClassLoadSent(store)
                                                     ELSE NoClassLoad
              ELSE UNCHANGED << activeTab, listState, isLoading, loadPending, call,
                                orphans, classes, showInput, editingIndex, form,
                                classLoad >>

\* The callback of the first mount effect: setAccepted(result?.accepted || false)
\* with the value the store held when the get was sent.
AcceptedCallback ==
    /\ bodyLoad.accepted.pending
    /\ bodyLoad' = [bodyLoad EXCEPT !.accepted.pending = FALSE]
    /\ Rerender(bodyLoad.accepted.value, enter, storage)
    /\ UNCHANGED << storage, consoleLog, feed, ical >>
    /\ UNCHANGED recurrenceVars

\* The callback of the second mount effect: setEnter(result?.enter || false).
EnterFlagCallback ==
    /\ bodyLoad.enter.pending
    /\ bodyLoad' = [bodyLoad EXCEPT !.enter.pending = FALSE]
    /\ Rerender(accepted, bodyLoad.enter.value, storage)
    /\ UNCHANGED << storage, consoleLog, feed, ical >>
    /\ UNCHANGED recurrenceVars

\* Popup, which Body renders with its setAccepted: the terms are accepted and
\* setAccepted(true) is called. Whether the flag has been written to the store
\* by then is Popup's matter; both cases are kept.
AcceptTerms(persisted) ==
    /\ Rendered = "Popup"
    /\ storage' = IF persisted THEN StorageSet(storage, "accepted", << TRUE >>)
                                ELSE storage
    /\ Rerender(TRUE, enter, storage')
    /\ UNCHANGED << bodyLoad, consoleLog, feed, ical >>
    /\ UNCHANGED recurrenceVars

\* The popup is closed and opened again: Body is created anew with both flags
\* false and its two mount effects have asked the store; the components of the
\* old popup and everything they had started are gone.
OpenPopup ==
    /\ accepted' = FALSE
    /\ enter' = FALSE
    /\ bodyLoad' = BodyLoadSent(storage)
    /\ APIKEY' = << >>
    /\ errorMessage' = ""
    /\ courseList' = << >>
    /\ enterCalls' = EmptyBag
    /\ activeTab' = "Classes"
    /\ listState' = EmptyList
    /\ isLoading' = FALSE
    /\ loadPending' = FALSE
    /\ call' = Idle
    /\ orphans' = EmptyBag
    /\ classes' = << >>
    /\ showInput' = TRUE
    /\ editingIndex' = 0
    /\ form' = EmptyForm
    /\ classLoad' = NoClassLoad
    /\ consoleLog' = ""
    /\ UNCHANGED << storage, feed, ical >>
    /\ UNCHANGED recurrenceVars

\* Body and GetAPI once the token has been entered: Main is shown.
InitTerms ==
    /\ accepted = TRUE
    /\ enter = TRUE
    /\ APIKEY = << >>
    /\ errorMessage = ""
    /\ courseList = << >>
    /\ enterCalls = EmptyBag
    /\ bodyLoad = NoBodyLoad

InitPages ==
    /\ activeTab = "Classes"
    /\ listState = EmptyList
    /\ isLoading = FALSE
    /\ loadPending = FALSE
    /\ call = Idle
    /\ orphans = EmptyBag
    /\ consoleLog = ""
    /\ classes = << >>
    /\ showInput = TRUE
    /\ editingIndex = 0
    /\ form = EmptyForm
    /\ ical = << >>

Init ==
    /\ storage = InitStorage
    /\ classLoad = ClassLoadSent(InitStorage)
    /\ feed = << >>
    /\ InitPages
    /\ InitTerms
    /\ InitRecurrence

Callers == {<< call, TRUE >>} \cup {<< c, FALSE >> : c \in BagToSet(orphans)}

\* The steps of the running reparse() invocations, whatever their page.
NextCall ==
    \/ \E w \in Callers : FetchFail(w[1], w[2])
    \/ \E w \in Callers : StorageSetDone(w[1], w[2])
    \/ \E w \in Callers : ReparseFinish(w[1], w[2])

\* One batch for every answer the announcements request can give: a step of
\* reparse() depends on the batch only through the answer.
MidtermAnswers == {DetectMidterms(b, << >>) : b \in AnnouncementBatches}
AnswerBatches ==
    {CHOOSE b \in AnnouncementBatches : DetectMidterms(b, << >>) = r : r \in MidtermAnswers}

\* The midterms page and the tabs around it.
NextMidterm ==
    \/ \E t \in {"Classes", "Midterms"} : SelectTab(t)
    \/ LoadCallback
    \/ ReparseStart
    \/ \E w \in Callers, b \in AnswerBatches : FetchMidtermsOk(w[1], w[2], b)
    \/ NextCall
    \/ ReopenPopup

SpecMidterm == Init /\ [][NextMidterm]_vars

\* The midterms page when every API call of the behaviour sees the same
\* announcements, drawn at the start.
InitParser ==
    /\ storage = InitStorage
    /\ classLoad = ClassLoadSent(InitStorage)
    /\ feed \in AnnouncementBatches
    /\ InitPages
    /\ InitTerms
    /\ InitRecurrence

NextParser ==
    \/ \E t \in {"Classes", "Midterms"} : SelectTab(t)
    \/ LoadCallback
    \/ ReparseStart
    \/ \E w \in Callers : FetchMidtermsOk(w[1], w[2], feed)
    \/ NextCall
    \/ ReopenPopup

SpecParser == InitParser /\ [][NextParser]_vars

\* ------------------------------------------------------- midterm claims
StoredMidterms == StorageGet(storage, "midterms")

\* The events of a list that belong to one course, in list order.
EventsFor(events, course) == SelectSeq(events, LAMBDA e : e.course = course)

\* A step in which a reparse() of the midterms page writes its answer.
MidtermsWritten(w) == w[1].key = "midterms" /\ StorageSetDone(w[1], w[2])

\* C1: after any sequence of midterm refresh cycles the stored midterm list
\* holds at most one Midterm event per course: a refresh replaces what was
\* stored and never appends to it.
C1_OneMidtermPerCourse ==
    \A course \in Courses : Len(EventsFor(StoredMidterms, course)) <= 1

\* A later cycle has written both courses' midterms over the list an earlier
\* cycle left on the page.
C1_Witness ==
    /\ call.pc = "setState"
    /\ Len(StoredMidterms) = 2
    /\ listState # << >>
    /\ listState # StoredMidterms
    /\ \A e \in Range(listState) : e.event_type = "Midterm"

\* C2: when a cycle writes a midterm for a course whose stored midterm has a
\* different date, the store afterwards holds exactly one Midterm event for
\* that course and it carries the new date.
C2_NewDateReplacesOld ==
    [][\A w \in Callers : MidtermsWritten(w) =>
          \A e \in Range(w[1].data), old \in Range(StoredMidterms) :
             (old.course = e.course /\ old.date # e.date) =>
                EventsFor(StorageGet(storage', "midterms"), e.course) = << e >>]_vars

\* MATH 253 was shown with 2025/10/15 by an earlier cycle; a later cycle has
\* written 2025/10/22 for it.
C2_Witness ==
    /\ call.pc = "setState"
    /\ MidtermEvent(MATH253, "2025/10/15") \in Range(listState)
    /\ EventsFor(StoredMidterms, MATH253) = << MidtermEvent(MATH253, "2025/10/22") >>

\* The date of the first announcement of the course, in batch order, that
\* carries a date (NoSpan when there is none).
FirstSpan(anns, course) ==
    LET idx == {i \in DOMAIN anns : anns[i].course = course /\ anns[i].span # NoSpan}
    IN  IF idx = {} THEN NoSpan
        ELSE anns[CHOOSE i \in idx : \A j \in idx : i <= j].span

\* The announcements of a batch that carry a date and come after another
\* announcement of their course that carries one.
LaterCandidates(anns) ==
    {anns[j] : j \in {k \in DOMAIN anns :
                        /\ anns[k].span # NoSpan
                        /\ \E i \in 1..(k - 1) :
                              anns[i].course = anns[k].course /\ anns[i].span # NoSpan}}

\* events holds, for every course, the event of the course's first dated
\* announcement and no other event of the course.
FirstCandidatesOnly(events, anns) ==
    \A course \in Courses :
        EventsFor(events, course) =
            IF FirstSpan(anns, course) = NoSpan THEN << >>
            ELSE << MidtermEvent(course, FirstSpan(anns, course)) >>

C4_Original ==
    [][\A w \in Callers : MidtermsWritten(w) =>
          \A old \in Range(StoredMidterms) :
             old.course \notin CoursesOf(w[1].data) =>
                old \in Range(StorageGet(storage', "midterms"))]_vars

\* ---------------------------------------------------------- the class page
ClassNames   == {CPEN221, INTRO, BLANK}
DayChoices   == {"M"}
StartChoices == {<< 8, 0, "AM" >>}
EndChoices   == {<< 9, 0, "AM" >>}

NextClassPage ==
    \/ \E n \in ClassNames : TypeClassName(n)
    \/ \E d \in DayChoices : ToggleDay(d)
    \/ \E t \in StartChoices : SelectStart(t)
    \/ \E t \in EndChoices : SelectEnd(t)
    \/ HandleSubmit
    \/ \E i \in 1..MaxClasses : HandleDelete(i)
    \/ \E i \in 1..MaxClasses : HandleEdit(i)
    \/ AddAnotherClass
    \/ ClassLoadCallback

NextClass ==
    \/ NextClassPage
    \/ ReopenPopup

SpecClass == Init /\ [][NextClass]_vars

\* ------------------------------------------------------ all four pages
\* The answers and the class form inputs are the smallest that let every page
\* write a non-empty list; the class page adds and deletes.
RefreshBatches == {<< [course |-> MATH253, span |-> "2025/10/15"] >>}
RefreshAnswers == {<< FinalEvent(CPEN221) >>, << AssignmentEvent(CPEN221) >>}

NextRefresh ==
    \/ \E t \in COMPONENT_TABS : SelectTab(t)
    \/ LoadCallback
    \/ ReparseStart
    \/ \E w \in Callers, b \in RefreshBatches : FetchMidtermsOk(w[1], w[2], b)
    \/ \E w \in Callers, r \in RefreshAnswers : FetchOk(w[1], w[2], r)
    \/ NextCall
    \/ ReopenPopup
    \/ TypeClassName(CPEN221)
    \/ \E d \in DayChoices : ToggleDay(d)
    \/ \E t \in StartChoices : SelectStart(t)
    \/ \E t \in EndChoices : SelectEnd(t)
    \/ HandleSubmit
    \/ \E i \in 1..MaxClasses : HandleDelete(i)
    \/ ClassLoadCallback

SpecRefresh == Init /\ [][NextRefresh]_vars

\* ------------------------------------------------------ refresh claims
\* A step that writes the stored value of key.
Writes(key) ==
    \/ \E w \in Callers : w[1].key = key /\ StorageSetDone(w[1], w[2])
    \/ key = "classData" /\ (HandleSubmit \/ \E i \in DOMAIN classes : HandleDelete(i))

Changed(key) ==
    \/ StorageGet(storage', key) # StorageGet(storage, key)
    \/ (key \in storage'.keys) # (key \in storage.keys)

\* C5: refreshing one category changes only that category's stored value:
\* a step changes the value under a key only if it is that category's write,
\* so every other category, the token and the course list are left as they
\* were, and a refresh that fails changes none.
C5_OnlyOwnCategoryChanges ==
    [][\A key \in Keys : Changed(key) => Writes(key)]_vars

\* Every category and the class list have been written, one after the other,
\* and the token and the course list are still the ones stored at the start.
C5_Witness ==
    /\ {"midterms", "finals", "assignments", "classData"} \subseteq storage.keys
    /\ \A key \in {"midterms", "finals", "assignments", "classData"} :
          StorageGet(storage, key) # << >>
    /\ StorageGet(storage, "token") = StorageGet(InitStorage, "token")
    /\ StorageGet(storage, "courses") = StorageGet(InitStorage, "courses")

\* C6: category replacement is all-or-nothing: a step changes a category's
\* stored list only by replacing it with the complete list a reparse()
\* fetched, and a refresh whose request fails, or that is abandoned with the
\* popup, leaves the store and the list on the page as they were.
C6_AllOrNothing ==
    [][/\ \A key \in {"midterms", "finals", "assignments"} :
             Changed(key) =>
                \E w \in Callers : /\ w[1].pc = "storageSet"
                                   /\ w[1].key = key
                                   /\ StorageGet(storage', key) = w[1].data
       /\ \A w \in Callers : FetchFail(w[1], w[2]) =>
             storage' = storage /\ listState' = listState
       /\ ReopenPopup => storage' = storage]_vars

\* The finals page shows the stored final and its last refresh failed.
C6_Witness ==
    /\ activeTab = "Finals"
    /\ consoleLog = "Error reparsing"
    /\ call.pc = "idle"
    /\ ~isLoading
    /\ listState = << FinalEvent(CPEN221) >>
    /\ StorageGet(storage, "finals") = listState

\* ------------------------------------------------------ calendar export
\* The export over every store the pages can have written.
InitExport ==
    /\ \E m \in MidtermAnswers, f \in Responses("finals"), a \in Responses("assignments") :
          storage = StorageSet(StorageSet(StorageSet(InitStorage, "midterms", m),
                                          "finals", f), "assignments", a)
    /\ classLoad = ClassLoadSent(storage)
    /\ feed = << >>
    /\ InitPages
    /\ InitTerms
    /\ InitRecurrence

NextExport ==
    \/ GenerateIcal
    \/ \E t \in COMPONENT_TABS : SelectTab(t)
    \/ LoadCallback

SpecExport == InitExport /\ [][NextExport]_vars

\* C7 as claimed: every entry of the calendar export is a timed-event entry;
\* no event is encoded as a to-do entry.
C7_Original == \A i \in DOMAIN ical : ical[i].component = "VEVENT"

\* ------------------------------------------------------ class list claims
StoredClasses == StorageGet(storage, "classData")

\* The course identifier grammar: one or more uppercase letters, an optional
\* separator, exactly three digits, an optional trailing letter.
ParsesAsCourse(str) ==
    \E n \in 1..Len(str) :
        /\ \A i \in 1..n : str[i] \in UpperLetters
        /\ LET rest == SubSeq(str, n + 1, Len(str))
           IN  \E r \in {rest} \cup (IF rest # << >> /\ Head(rest) \in Separators
                                     THEN {Tail(rest)} ELSE {}) :
                  /\ Len(r) \in {3, 4}
                  /\ \A i \in 1..3 : r[i] \in Digits
                  /\ Len(r) = 4 => r[4] \in UpperLetters

\* C8 as claimed: every stored event, the class meetings saved from the class
\* form included, has a course identifier that matches the grammar.
C8_Original ==
    /\ \A e \in Range(StoredClasses) : ParsesAsCourse(e.className)
    /\ \A key \in {"midterms", "finals", "assignments"} :
          \A e \in Range(StorageGet(storage, key)) : ParsesAsCourse(e.course)

\* The key of a stored class meeting: course, kind, days and start time.
ClassKey(c) == << c.className, "class meeting", c.days, c.startTime >>

\* C9 as claimed: the store never holds two events with the same key; saving
\* the same class meeting twice does not leave two stored entries.
C9_Original ==
    /\ \A i, j \in DOMAIN StoredClasses :
          i # j => ClassKey(StoredClasses[i]) # ClassKey(StoredClasses[j])
    /\ \A key \in {"midterms", "finals", "assignments"} :
          \A i, j \in DOMAIN StorageGet(storage, key) :
             i # j => StorageGet(storage, key)[i] # StorageGet(storage, key)[j]

Count(list, x) == Cardinality({i \in DOMAIN list : list[i] = x})

\* C10 as claimed: a stored class meeting leaves the persisted class list
\* only by a deletion or by an edit that replaces it; adding a class never
\* removes a persisted one, however the load callback and the saves interleave.
C10_Original ==
    [][(\E x \in Range(StoredClasses) :
           Count(StorageGet(storage', "classData"), x) < Count(StoredClasses, x))
       => \/ \E i \in DOMAIN classes : HandleDelete(i)
          \/ editingIndex # 0 /\ HandleSubmit]_vars

\* ------------------------------------------------------ class time claims
\* The class page with start and end times around 1:00 PM, where the displayed
\* hour starts again at 1.
TimeStarts == {<< 12, 30, "PM" >>, << 1, 0, "PM" >>}
TimeEnds   == {<< 1, 0, "PM" >>, << 1, 30, "PM" >>}

NextTimes ==
    \/ TypeClassName(CPEN221)
    \/ \E d \in DayChoices : ToggleDay(d)
    \/ \E t \in TimeStarts : SelectStart(t)
    \/ \E t \in TimeEnds : SelectEnd(t)
    \/ HandleSubmit
    \/ \E i \in 1..MaxClasses : HandleDelete(i)
    \/ \E i \in 1..MaxClasses : HandleEdit(i)
    \/ AddAnotherClass
    \/ ClassLoadCallback
    \/ ReopenPopup

SpecTimes == Init /\ [][NextTimes]_vars

\* The place of a time among the options of the selects, which are in
\* chronological order, half an hour apart.
Slot(t) == CHOOSE i \in DOMAIN allTimes : allTimes[i] = t

\* C11: every class meeting passed to onSave and persisted has an end time at
\* least 30 minutes after its start time, also when the start time is chosen
\* again after an end time and when an existing class is edited.
C11_StartBeforeEnd ==
    \A c \in Range(StoredClasses) \cup Range(classes) :
        c # Hole => Slot(c.endTime) >= Slot(c.startTime) + 1

\* An edited class has been saved with other times than another stored class.
C11_Witness ==
    /\ Len(StoredClasses) = 2
    /\ StoredClasses = classes
    /\ StoredClasses[1].startTime = << 12, 30, "PM" >>
    /\ StoredClasses[1].endTime = << 1, 0, "PM" >>
    /\ StoredClasses[2].startTime = << 1, 0, "PM" >>

\* ------------------------------------------------------ repeated refresh
\* C12: a refresh with the same candidate batch against the midterm list an
\* earlier refresh with that batch stored leaves the stored list as it was.
C12_SecondRunNoChange ==
    [][\A w \in Callers :
          (MidtermsWritten(w) /\ "midterms" \in storage.keys) =>
              StorageGet(storage', "midterms") = StoredMidterms]_vars

\* A second refresh has written over the non-empty list the first one left
\* on the page.
C12_Witness ==
    /\ call.pc = "setState"
    /\ call.key = "midterms"
    /\ consoleLog = "Stored data:"
    /\ listState # << >>
    /\ listState = StoredMidterms

\* ------------------------------------------------------ token screen claims
TokenInputs == {TOKEN, PADDED, BLANK}
CourseLists == {<< MATH253 >>, << MATH253, CPEN221 >>}

\* The store and the screens when the terms have been accepted and no token
\* has been entered yet: GetAPI is shown.
InitEnter ==
    /\ storage = [keys  |-> {"accepted"},
                  value |-> [k \in Keys |-> IF k = "accepted" THEN << TRUE >> ELSE << >>]]
    /\ accepted = TRUE
    /\ enter = FALSE
    /\ APIKEY = << >>
    /\ errorMessage = ""
    /\ courseList = << >>
    /\ enterCalls = EmptyBag
    /\ bodyLoad = NoBodyLoad
    /\ classLoad = NoClassLoad
    /\ feed = << >>
    /\ InitPages
    /\ InitRecurrence

NextEnter ==
    \/ \E t \in TokenInputs : TypeToken(t)
    \/ HandleEnterBlank
    \/ HandleEnter
    \/ \E c \in BagToSet(enterCalls), l \in CourseLists : CoursesOk(c, l)
    \/ \E c \in BagToSet(enterCalls) : CoursesStored(c)
    \/ \E c \in BagToSet(enterCalls) : SendFinals(c)
    \/ \E c \in BagToSet(enterCalls), f \in Responses("finals") : FinalsOk(c, f)
    \/ \E c \in BagToSet(enterCalls) : FinalsStored(c)
    \/ \E c \in BagToSet(enterCalls) : EnterFail(c)
    \/ \E c \in BagToSet(enterCalls) : EnterStored(c)
    \/ \E c \in BagToSet(enterCalls) : EnterCallback(c)

SpecEnter == InitEnter /\ [][NextEnter]_vars

\* C15 as claimed: when a backend request of handleEnter has failed, the end
\* of the handler leaves the retry message displayed, the enter flag not
\* persisted and the token screen shown.
C15_Original ==
    [][\A c \in BagToSet(enterCalls) :
          (c.failed /\ EnterCallback(c)) =>
              /\ errorMessage' = RetryError
              /\ "enter" \notin storage'.keys
              /\ accepted' /\ ~enter']_vars

\* C18 as claimed: the final-exam request of every handleEnter call is sent
\* with the course list the courses request of that call returned.
C18_Original ==
    \A c \in BagToSet(enterCalls) :
        c.pc \in {"finals", "setFinals"} => c.sent = c.fetched

\* ------------------------------------------------------ recurrence claims
AnchorDates    == 0..6
WeekdaySets    == SUBSET {"MO", "TU", "TH", "SU"} \ {{}}
ExceptionDates == {8, 15, 29}

Rules ==
    [start : AnchorDates, weekdays : WeekdaySets, interval : 1..MaxInterval,
     exceptions : SUBSET ExceptionDates]

InitExpand ==
    /\ rule \in Rules
    /\ occurrences = << >>
    /\ storage = InitStorage
    /\ classLoad = ClassLoadSent(InitStorage)
    /\ feed = << >>
    /\ InitPages
    /\ InitTerms

NextExpand == ExpandRule

SpecExpand == InitExpand /\ [][NextExpand]_vars

\* The dates the rule yields when it has no exception dates.
Unexcepted == Expand([rule EXCEPT !.exceptions = {}], Window(rule))

\* C13: for every non-empty weekday set W, positive interval I and exception
\* set X, expand over [start, start + 10*I weeks] yields exactly 10*|W| dates
\* minus the occurrences that are in X, every date on a weekday of W, in
\* strictly increasing order, and an exception date that matches an occurrence
\* removes that date and no other.
C13_ExpandCount ==
    occurrences # << >> =>
        /\ Len(Unexcepted) = WindowWeeks * Cardinality(rule.weekdays)
        /\ Len(occurrences) = WindowWeeks * Cardinality(rule.weekdays)
                                 - Cardinality(Range(Unexcepted) \cap rule.exceptions)
        /\ Range(occurrences) = Range(Unexcepted) \ rule.exceptions
        /\ \A i \in DOMAIN occurrences : DayOf(occurrences[i]) \in rule.weekdays
        /\ \A i \in DOMAIN occurrences :
              i > 1 => occurrences[i - 1] < occurrences[i]
        /\ \A i \in DOMAIN occurrences :
              /\ occurrences[i] >= rule.start
              /\ ((occurrences[i] - rule.start) \div 7) % rule.interval = 0

\* A rule on Tuesdays and Thursdays every second week, anchored on a Tuesday,
\* with an exception on one of its Tuesdays, has been expanded.
C13_Witness ==
    /\ rule = [start |-> 1, weekdays |-> {"TU", "TH"}, interval |-> 2, exceptions |-> {15, 29}]
    /\ Len(occurrences) = 18
    /\ 1 \in Range(occurrences)
    /\ 29 \notin Range(occurrences)

\* ------------------------------------------------------ class list in memory
\* C16 as claimed: once the load callback has run, the class list in memory
\* equals the class list persisted under classData, after every save, edit
\* and delete.
C16_Original ==
    (activeTab = "Classes" /\ ~classLoad.pending) => classes = StoredClasses

\* C17: every class meeting that is saved has a non-empty set of days, over
\* every sequence of checkbox clicks, submits and edits.
C17_DaysNotEmpty ==
    \A c \in Range(StoredClasses) \cup Range(classes) : c # Hole => c.days # {}

\* Two classes are stored and the form is open again with a name and no day
\* checked.
C17_Witness ==
    /\ Len(StoredClasses) = 2
    /\ \A c \in Range(StoredClasses) : c.days = {"M"}
    /\ showInput
    /\ form.className = CPEN221
    /\ form.days = {}

\* ------------------------------------------------------ refreshes in flight
\* A refresh of the category is in flight: its request is sent and its result
\* is not stored yet.
Unstored(c, key) == c.key = key /\ c.pc \in {"fetch", "storageSet"}

\* C19 as claimed: for each category at most one refresh is in flight at any
\* time, whatever the Reparse clicks and tab changes.
C19_Original ==
    \A key \in {"midterms", "finals", "assignments"} :
        /\ \A c \in BagToSet(orphans) :
              Unstored(c, key) => /\ CopiesIn(c, orphans) = 1
                                  /\ ~Unstored(call, key)
        /\ \A c1, c2 \in BagToSet(orphans) :
              (Unstored(c1, key) /\ Unstored(c2, key)) => c1 = c2

\* ------------------------------------------------------ the loading flag
\* The three refresh pages; every request is answered or fails, and every
\* storage callback comes.
NextLoading ==
    \/ \E t \in COMPONENT_TABS : SelectTab(t)
    \/ LoadCallback
    \/ ReparseStart
    \/ \E w \in Callers, b \in RefreshBatches : FetchMidtermsOk(w[1], w[2], b)
    \/ \E w \in Callers, r \in RefreshAnswers : FetchOk(w[1], w[2], r)
    \/ NextCall

\* A step of the mounted page's reparse().
MountedStep ==
    \/ \E b \in RefreshBatches : FetchMidtermsOk(call, TRUE, b)
    \/ \E r \in RefreshAnswers : FetchOk(call, TRUE, r)
    \/ FetchFail(call, TRUE)
    \/ StorageSetDone(call, TRUE)
    \/ ReparseFinish(call, TRUE)

SpecLoading == Init /\ [][NextLoading]_vars /\ WF_vars(MountedStep)

\* C20: every refresh started by Reparse ends with the page's loading flag
\* false, whether the request succeeded or failed, and the flag is true
\* exactly while the page's reparse() is running.
C20_LoadingEnds ==
    /\ [](isLoading <=> call.pc # "idle")
    /\ (isLoading ~> ~isLoading)

\* A refresh of the finals page has failed and the flag is false again.
C20_Witness ==
    /\ activeTab = "Finals"
    /\ consoleLog = "Error reparsing"
    /\ ~isLoading
    /\ call.pc = "idle"
    /\ orphans = EmptyBag
    /\ ~loadPending

\* ------------------------------------------------------ blank token
\* C21: handleEnter with an empty or whitespace-only token sets the error
\* message and does nothing else: no request is issued, nothing is written to
\* storage and the token screen stays shown; so no invocation ever runs with a
\* blank token and no blank token is ever stored.
C21_BlankTokenOnlyError ==
    /\ [](\A c \in BagToSet(enterCalls) : c.token # << >>)
    /\ []("token" \in storage.keys => StorageGet(storage, "token") = TOKEN)
    /\ [][HandleEnterBlank =>
             /\ errorMessage' = BlankTokenError
             /\ storage' = storage
             /\ enterCalls' = enterCalls
             /\ accepted' /\ ~enter']_vars

\* ENTER has been pressed on a whitespace-only token while an earlier call,
\* made with a token, is waiting for its courses answer.
C21_Witness ==
    /\ APIKEY = BLANK
    /\ errorMessage = BlankTokenError
    /\ accepted /\ ~enter
    /\ storage.keys = {"accepted"}
    /\ BagCardinality(enterCalls) = 1
    /\ \A c \in BagToSet(enterCalls) : c.pc = "courses"

\* ------------------------------------------------------------ Body
\* The popup opened for the first time: nothing is stored, Body is mounted with
\* both flags false and its two reads of the store are under way.
InitBody ==
    /\ storage = [keys |-> {}, value |-> [k \in Keys |-> << >>]]
    /\ accepted = FALSE
    /\ enter = FALSE
    /\ bodyLoad = BodyLoadSent([keys |-> {}, value |-> [k \in Keys |-> << >>]])
    /\ APIKEY = << >>
    /\ errorMessage = ""
    /\ courseList = << >>
    /\ enterCalls = EmptyBag
    /\ classLoad = NoClassLoad
    /\ feed = << >>
    /\ InitPages
    /\ InitRecurrence

NextBody ==
    \/ AcceptedCallback
    \/ EnterFlagCallback
    \/ \E persisted \in BOOLEAN : AcceptTerms(persisted)
    \/ OpenPopup
    \/ TypeToken(TOKEN)
    \/ HandleEnter
    \/ \E c \in BagToSet(enterCalls) : CoursesOk(c, << MATH253 >>)
    \/ \E c \in BagToSet(enterCalls) : CoursesStored(c)
    \/ \E c \in BagToSet(enterCalls) : SendFinals(c)
    \/ \E c \in BagToSet(enterCalls) : FinalsOk(c, << FinalEvent(CPEN221) >>)
    \/ \E c \in BagToSet(enterCalls) : FinalsStored(c)
    \/ \E c \in BagToSet(enterCalls) : EnterFail(c)
    \/ \E c \in BagToSet(enterCalls) : EnterStored(c)
    \/ \E c \in BagToSet(enterCalls) : EnterCallback(c)

SpecBody == InitBody /\ [][NextBody]_vars

\* C22: Body renders exactly one of the terms popup, the token screen and the
\* main tabbed UI in every state; Main only when accepted and enter are both
\* true, the terms popup whenever accepted is false, whatever enter is, and the
\* token screen when accepted is true and enter is false. The components follow
\* the render: a handleEnter call acts on a mounted GetAPI only while the token
\* screen is rendered, and the class page of Main awaits its list only while
\* Main is rendered.
C22_OneScreenByFlags ==
    /\ Cardinality({s \in {"Popup", "GetAPI", "Main"} : Rendered = s}) = 1
    /\ Rendered = "Main" => accepted /\ enter
    /\ ~accepted => Rendered = "Popup"
    /\ accepted /\ ~enter => Rendered = "GetAPI"
    /\ (\E c \in BagToSet(enterCalls) : c.live) => Rendered = "GetAPI"
    /\ classLoad.pending => Rendered = "Main"

\* The enter flag has been read as true while accepted is still false, with the
\* read of accepted answered: the terms popup is what is rendered.
C22_Witness ==
    /\ ~accepted
    /\ enter
    /\ ~bodyLoad.accepted.pending
    /\ ~bodyLoad.enter.pending
    /\ "enter" \in storage.keys
    /\ Rendered = "Popup"

====
